---------------------------- MODULE Spec2Model ----------------------------
(***************************************************************************)
(* Model of Streamlit_Bollinger.py: the Bollinger-band signal function     *)
(* analyze_stock, the add-stock form with its validation, the refresh      *)
(* button and the dashboard loop that re-evaluates every tracked symbol.   *)
(*                                                                         *)
(* Text is a sequence of one-character strings.  A close price is an       *)
(* integer number of hundredths, the multiplier an integer number of       *)
(* tenths.  Band arithmetic is exact: a band is the real number            *)
(* S/n +- (k/10) * sqrt(D / (n*(n-1))) and every comparison against it is  *)
(* decided on integers by squaring (the code computes in binary doubles).  *)
(***************************************************************************)
EXTENDS Integers, Sequences, FiniteSets

VARIABLES
    symbols,       \* st.session_state.symbols
    refresh,       \* st.session_state.refresh
    period,        \* the "Length (Period)" widget
    multiplier,    \* the "Multiplier (Std Dev)" widget, in tenths
    submitted,     \* the form's submit flag of the current run
    stock_symbol,  \* the form's text: as typed, then as the add block rewrites it
    warning,       \* the st.warning the add block issued in the current run
    pc,            \* where the script is: "idle", "add", "dashboard"; "call" and
                   \* "returned" around a direct call of analyze_stock
    df,            \* the frame the latest yf.download produced
    data,          \* what the latest analyze_stock call returned
    frames,        \* the frames downloaded by the dashboard loop of this run
    results,       \* the dashboard loop's result rows
    view           \* what the display section rendered: "table" or "info"

vars == <<symbols, refresh, period, multiplier, submitted, stock_symbol,
          warning, pc, df, data, frames, results, view>>

---------------------------------------------------------------------------
\* Widget limits and defaults (multiplier in tenths).
MinPeriod == 5
MaxPeriod == 50
DefaultPeriod == 20
MinMultiplier == 10
MaxMultiplier == 30
DefaultMultiplier == 20

\* Bounds of the model.
MaxSymbols == 2     \* longest watchlist explored
MaxRefresh == 1     \* most clicks of the refresh button explored
MaxRows == 4        \* longest frame given to a direct analyze_stock call
MaxClose == 2       \* largest close (hundredths) in such a frame
MaxWindow == 4      \* largest period given to a direct analyze_stock call

None == [kind |-> "None"]

Range(s) == {s[i] : i \in 1..Len(s)}

---------------------------------------------------------------------------
\* Text: str.strip() and str.upper() on sequences of characters.

IsSpace(c) == c = " "

RECURSIVE LStrip(_)
LStrip(s) == IF s # <<>> /\ IsSpace(Head(s)) THEN LStrip(Tail(s)) ELSE s

RECURSIVE RStrip(_)
RStrip(s) ==
    IF s # <<>> /\ IsSpace(s[Len(s)]) THEN RStrip(SubSeq(s, 1, Len(s) - 1)) ELSE s

Strip(s) == RStrip(LStrip(s))

UpperChar(c) == IF c = "a" THEN "A" ELSE IF c = "b" THEN "B" ELSE c

Upper(s) == [i \in 1..Len(s) |-> UpperChar(s[i])]

\* Faulty variant: trims but keeps the case.
NormalizeNoUpper(s) == Strip(s)

\* stock_symbol.strip().upper()
Normalize(s) == Upper(Strip(s))

---------------------------------------------------------------------------
\* Frames: what yf.download hands back.  kind "error" is a raised exception.
\* A row carries its Close and whether any of its cells is NaN.

Row(c) == [Close |-> c, na |-> FALSE]
NaNRow == [Close |-> 0, na |-> TRUE]

ErrorFrame == [kind |-> "error", hasClose |-> FALSE, rows |-> <<>>]
Frame(rows, hasClose) == [kind |-> "frame", hasClose |-> hasClose, rows |-> rows]
NoFrame == [kind |-> "none", hasClose |-> FALSE, rows |-> <<>>]

\* Faulty variant: rows with NaN cells are kept.
dropnaKeepAll(rows) == rows

\* df.dropna(): the rows without a NaN cell, in order.
dropna(rows) == SelectSeq(rows, LAMBDA r : ~r.na)

RECURSIVE SumSeq(_)
SumSeq(s) == IF s = <<>> THEN 0 ELSE Head(s) + SumSeq(Tail(s))

\* The closes of the last `n` rows: the window rolling(n) sees at iloc[-1].
LastWindow(rows, n) ==
    [i \in 1..n |-> rows[Len(rows) - n + i].Close]

MaxOf(w) == CHOOSE x \in Range(w) : \A y \in Range(w) : y <= x

Squares(w) == [i \in 1..Len(w) |-> w[i] * w[i]]

Sign(x) == IF x > 0 THEN 1 ELSE IF x < 0 THEN -1 ELSE 0

\* The sign of  num/(2n) - s*(k/10)*sqrt(D/(n*(n-1)))  for D >= 0 and s in
\* {1,-1}: the sign of num when the deviation is zero, else both sides
\* squared and scaled by 100*n*n*(n-1).
SignDiff(num, n, s, k, D) ==
    LET L == 25 * num * num * (n - 1)
        R == k * k * n * D
    IN  IF D = 0 THEN Sign(num)
        ELSE IF s = 1
        THEN IF num < 0 THEN -1 ELSE Sign(L - R)
        ELSE IF num > 0 THEN 1 ELSE Sign(R - L)

\* Faulty variant: the sum is not squared in the variance.
RollingPlainSum(rows, n) ==
    LET w == LastWindow(rows, n)
        S == SumSeq(w)
        Q == SumSeq(Squares(w))
    IN  [n |-> n, S |-> S, D |-> n * Q - S, stdNaN |-> n = 1, hi |-> MaxOf(w)]

\* Variant: a window of one has deviation zero instead of NaN.
RollingZeroStd(rows, n) ==
    LET w == LastWindow(rows, n)
        S == SumSeq(w)
        Q == SumSeq(Squares(w))
    IN  [n |-> n, S |-> S, D |-> n * Q - S * S, stdNaN |-> FALSE, hi |-> MaxOf(w)]

\* Rolling statistics at the last row: S the window's sum, D = n*Q - S*S, so
\* that MA = S/n and STD = sqrt(D/(n*(n-1))) (ddof = 1).  With n = 1 the
\* sample deviation divides by zero and pandas yields NaN.
Rolling(rows, n) ==
    LET w == LastWindow(rows, n)
        S == SumSeq(w)
        Q == SumSeq(Squares(w))
    IN  [n |-> n, S |-> S, D |-> n * Q - S * S, stdNaN |-> n = 1,
         hi |-> MaxOf(w)]

\* u <= S/n + s*(k/10)*STD
LeBand(u, roll, s, k) ==
    SignDiff(2 * (u * roll.n - roll.S), roll.n, s, k, roll.D) <= 0

\* round(float(band), 2): the band to the nearest hundredth, ties to even.
RoundBand(roll, s, k) ==
    LET lo == -((k * roll.hi) \div 10) - 1
        up == roll.hi + ((k * roll.hi) \div 10) + 1
        fl == CHOOSE u \in lo..up : LeBand(u, roll, s, k) /\ ~LeBand(u + 1, roll, s, k)
        half == SignDiff((2 * fl + 1) * roll.n - 2 * roll.S, roll.n, s, k, roll.D)
    IN  IF half < 0 THEN fl + 1
        ELSE IF half > 0 THEN fl
        ELSE IF fl % 2 = 0 THEN fl ELSE fl + 1

\* Faulty variant: a close on a band already signals.
SignalNonStrict(close, roll, k) ==
    LET dev == 2 * (close * roll.n - roll.S)
    IN  IF SignDiff(dev, roll.n, 1, k, roll.D) >= 0 THEN "SELL"
        ELSE IF SignDiff(dev, roll.n, -1, k, roll.D) <= 0 THEN "BUY"
        ELSE "HOLD"

\* The signal logic: SELL above the upper band, BUY below the lower, else HOLD.
Signal(close, roll, k) ==
    LET dev == 2 * (close * roll.n - roll.S)
    IN  IF SignDiff(dev, roll.n, 1, k, roll.D) > 0 THEN "SELL"
        ELSE IF SignDiff(dev, roll.n, -1, k, roll.D) < 0 THEN "BUY"
        ELSE "HOLD"

\* analyze_stock(symbol, period, multiplier), with the frame yf.download
\* returns made a parameter.  Any exception ends in the bare except: None.
analyze_stock(symbol, frame, p, k) ==
    IF frame.kind = "error" THEN None
    ELSE
        LET rows == dropna(frame.rows)
        IN  IF rows = <<>> \/ ~frame.hasClose \/ Len(rows) < p THEN None
            ELSE
                LET roll == Rolling(rows, p)
                    close == rows[Len(rows)].Close
                IN  IF roll.stdNaN THEN None
                    ELSE [kind |-> "row",
                          Symbol |-> symbol,
                          ClosePrice |-> close,
                          UpperBand |-> RoundBand(roll, 1, k),
                          LowerBand |-> RoundBand(roll, -1, k),
                          Signal |-> Signal(close, roll, k)]

---------------------------------------------------------------------------
\* The add-stock block run on a submitted form: the watchlist, the warning,
\* the form text, the trial frame and the trial result it leaves behind.
\* `frame` is what the trial download returns if the block gets that far.

Left(syms, text, warn) ==
    [symbols |-> syms, stock_symbol |-> text, warning |-> warn,
     df |-> NoFrame, data |-> None]

\* Faulty variant: the accepted symbol is put first.
add_stock_front(raw, syms, frame, p, k) ==
    IF raw = <<>> THEN Left(syms, raw, "empty")
    ELSE
        LET sym == Normalize(raw)
        IN  IF sym \in Range(syms) THEN Left(syms, sym, "duplicate")
            ELSE
                LET test_data == analyze_stock(sym, frame, p, k)
                IN  [symbols |-> IF test_data = None THEN syms ELSE <<sym>> \o syms,
                     stock_symbol |-> sym,
                     warning |-> IF test_data = None THEN "nodata" ELSE "none",
                     df |-> frame,
                     data |-> test_data]

add_stock(raw, syms, frame, p, k) ==
    IF raw = <<>> THEN Left(syms, raw, "empty")
    ELSE
        LET sym == Normalize(raw)
        IN  IF sym \in Range(syms) THEN Left(syms, sym, "duplicate")
            ELSE
                LET test_data == analyze_stock(sym, frame, p, k)
                IN  [symbols |-> IF test_data = None THEN syms ELSE Append(syms, sym),
                     stock_symbol |-> sym,
                     warning |-> IF test_data = None THEN "nodata" ELSE "none",
                     df |-> frame,
                     data |-> test_data]

\* Faulty variant: a failed evaluation throws the rows away.
loop_body_abort(rows, d) == IF d # None THEN Append(rows, d) ELSE <<>>

\* Faulty variant: the new row is put first.
loop_body_front(rows, d) == IF d # None THEN <<d>> \o rows ELSE rows

\* One pass of the dashboard loop's body: `if data: results.append(data)`.
loop_body(rows, d) == IF d # None THEN Append(rows, d) ELSE rows

---------------------------------------------------------------------------
\* What the user types and what the provider answers.

Inputs ==
    { <<>>, <<" ">>, <<"a">>, <<"A">>, <<" ", "a", " ">>,
      <<"a", "b">>, <<"A", "B", " ">> }

Flat(n, c) == [i \in 1..n |-> Row(c)]

SampleFrames ==
    { ErrorFrame,
      Frame(Flat(MinPeriod, 2), FALSE),
      Frame(<<>>, TRUE),
      Frame(Flat(MinPeriod - 1, 1) \o <<Row(3)>>, TRUE),
      Frame(Flat(MinPeriod - 1, 3) \o <<NaNRow, Row(1)>>, TRUE),
      Frame(Flat(DefaultPeriod, 2), TRUE) }

PeriodChoices == {p \in {MinPeriod, MinPeriod + 1, DefaultPeriod} : p <= MaxPeriod}

MultiplierChoices ==
    {k \in {MinMultiplier, DefaultMultiplier} : k <= MaxMultiplier}

---------------------------------------------------------------------------
\* The session: every user action reruns the script from the top.

Init ==
    /\ symbols = <<>>
    /\ refresh = 0
    /\ period = DefaultPeriod
    /\ multiplier = DefaultMultiplier
    /\ submitted = FALSE
    /\ stock_symbol = <<>>
    /\ warning = "none"
    /\ pc = "idle"
    /\ df = NoFrame
    /\ data = None
    /\ frames = <<>>
    /\ results = <<>>
    /\ view = "info"

\* The form is submitted with text `raw`: a rerun starts.
SubmitForm ==
    \E raw \in Inputs :
        /\ pc = "idle"
        /\ raw = <<>> \/ Normalize(raw) \in Range(symbols) \/ Len(symbols) < MaxSymbols
        /\ submitted' = TRUE
        /\ stock_symbol' = raw
        /\ warning' = "none"
        /\ df' = NoFrame
        /\ data' = None
        /\ frames' = <<>>
        /\ results' = <<>>
        /\ pc' = "add"
        /\ UNCHANGED <<symbols, refresh, period, multiplier, view>>

\* The add block (`if submitted:`), with its trial download.
AddStock ==
    \E frame \in SampleFrames :
        LET r == add_stock(stock_symbol, symbols, frame, period, multiplier)
        IN  /\ pc = "add"
            /\ symbols' = r.symbols
            /\ stock_symbol' = r.stock_symbol
            /\ warning' = r.warning
            /\ df' = r.df
            /\ data' = r.data
            /\ pc' = "dashboard"
            /\ UNCHANGED <<refresh, period, multiplier, submitted, frames,
                           results, view>>

\* The refresh button is clicked.
ClickRefresh ==
    /\ pc = "idle"
    /\ refresh < MaxRefresh
    /\ refresh' = refresh + 1
    /\ submitted' = FALSE
    /\ stock_symbol' = <<>>
    /\ warning' = "none"
    /\ df' = NoFrame
    /\ data' = None
    /\ frames' = <<>>
    /\ results' = <<>>
    /\ pc' = "dashboard"
    /\ UNCHANGED <<symbols, period, multiplier, view>>

\* One of the two number inputs is edited.
ChangeSettings ==
    \E p \in PeriodChoices, k \in MultiplierChoices :
        /\ pc = "idle"
        /\ <<p, k>> # <<period, multiplier>>
        /\ period' = p
        /\ multiplier' = k
        /\ submitted' = FALSE
        /\ stock_symbol' = <<>>
        /\ warning' = "none"
        /\ df' = NoFrame
        /\ data' = None
        /\ frames' = <<>>
        /\ results' = <<>>
        /\ pc' = "dashboard"
        /\ UNCHANGED <<symbols, refresh, view>>

\* Faulty variant: a symbol whose evaluation fails is dropped from the watchlist.
LoopStepPrune ==
    \E frame \in SampleFrames :
        LET sym == symbols[Len(frames) + 1]
            d == analyze_stock(sym, frame, period, multiplier)
        IN  /\ pc = "dashboard"
            /\ Len(frames) < Len(symbols)
            /\ df' = frame
            /\ data' = d
            /\ frames' = IF d = None THEN frames ELSE Append(frames, frame)
            /\ results' = loop_body(results, d)
            /\ symbols' = IF d = None THEN SelectSeq(symbols, LAMBDA x : x # sym)
                                     ELSE symbols
            /\ UNCHANGED <<refresh, period, multiplier, submitted,
                           stock_symbol, warning, pc, view>>

\* One iteration of `for sym in st.session_state.symbols`.
LoopStep ==
    \E frame \in SampleFrames :
        LET sym == symbols[Len(frames) + 1]
            d == analyze_stock(sym, frame, period, multiplier)
        IN  /\ pc = "dashboard"
            /\ Len(frames) < Len(symbols)
            /\ df' = frame
            /\ data' = d
            /\ frames' = Append(frames, frame)
            /\ results' = loop_body(results, d)
            /\ UNCHANGED <<symbols, refresh, period, multiplier, submitted,
                           stock_symbol, warning, pc, view>>

\* The loop is over: the table or the "no valid stocks" note is rendered and
\* the run ends (the form clears its text, the script's locals are gone).
Display ==
    /\ pc = "dashboard"
    /\ Len(frames) = Len(symbols)
    /\ view' = IF results # <<>> THEN "table" ELSE "info"
    /\ pc' = "idle"
    /\ submitted' = FALSE
    /\ stock_symbol' = <<>>
    /\ df' = NoFrame
    /\ data' = None
    /\ frames' = <<>>
    /\ results' = <<>>
    /\ UNCHANGED <<symbols, refresh, period, multiplier, warning>>

Next ==
    SubmitForm \/ AddStock \/ ClickRefresh \/ ChangeSettings \/ LoopStep \/ Display

Spec == Init /\ [][Next]_vars

---------------------------------------------------------------------------
\* analyze_stock called directly, on every small frame, period and multiplier.

Closes == 0..MaxClose

RowChoices == {Row(c) : c \in Closes} \cup {NaNRow}

RECURSIVE SeqsUpTo(_, _)
SeqsUpTo(S, n) ==
    IF n = 0 THEN {<<>>}
    ELSE LET shorter == SeqsUpTo(S, n - 1)
         IN  shorter \cup {Append(q, x) : q \in {t \in shorter : Len(t) = n - 1}, x \in S}

CoreFrames ==
    {ErrorFrame} \cup {Frame(rows, TRUE) : rows \in SeqsUpTo(RowChoices, MaxRows)}
                 \cup {Frame(Flat(MaxRows, 1), FALSE), Frame(Flat(6, 10), TRUE)}

CoreMultipliers == {MinMultiplier, 15, DefaultMultiplier, MaxMultiplier}

CorePeriods == 1..MaxWindow \cup {MinPeriod}

CoreInit ==
    /\ symbols = <<>>
    /\ refresh = 0
    /\ period \in CorePeriods
    /\ multiplier \in CoreMultipliers
    /\ submitted = FALSE
    /\ stock_symbol = <<"A">>
    /\ warning = "none"
    /\ pc = "call"
    /\ df \in CoreFrames
    /\ data = None
    /\ frames = <<>>
    /\ results = <<>>
    /\ view = "info"

Call ==
    /\ pc = "call"
    /\ data' = analyze_stock(stock_symbol, df, period, multiplier)
    /\ pc' = "returned"
    /\ UNCHANGED <<symbols, refresh, period, multiplier, submitted, stock_symbol,
                   warning, df, frames, results, view>>

CoreNext == Call

CoreSpec == CoreInit /\ [][CoreNext]_vars

---------------------------------------------------------------------------
\* Vocabulary of the properties, stated without the operators above.

LowerCase == {"a", "b"}

IsNormalized(s) ==
    /\ \A i \in 1..Len(s) : s[i] \notin LowerCase
    /\ s # <<>> => s[1] # " " /\ s[Len(s)] # " "

NoDuplicates(q) == \A i, j \in 1..Len(q) : q[i] = q[j] => i = j

AllSpaces(s) == \A i \in 1..Len(s) : s[i] = " "

IsPrefix(q, r) == Len(q) <= Len(r) /\ \A i \in 1..Len(q) : q[i] = r[i]

\* The usable closes of a frame: those of its rows with no NaN cell.
UsableIdx(frame) == {i \in 1..Len(frame.rows) : ~frame.rows[i].na}
UsableCount(frame) == Cardinality(UsableIdx(frame))
LastUsable(frame) == CHOOSE i \in UsableIdx(frame) : \A j \in UsableIdx(frame) : j <= i

\* No band at the latest timestamp: empty, or fewer usable closes than the window.
TooShort(frame, p) == frame.kind = "frame" /\ UsableCount(frame) < p

Unusable(frame, p) ==
    frame.kind = "error" \/ ~frame.hasClose \/ UsableCount(frame) = 0 \/ TooShort(frame, p)

HasRowFor(rows, sym) == \E j \in 1..Len(rows) : rows[j].Symbol = sym

\* The window of the latest call, when it returned a row.
WinCloses == LastWindow(dropna(df.rows), period)
WinSum == SumSeq(WinCloses)
WinDev == period * df.rows[LastUsable(df)].Close - WinSum
WinD == period * SumSeq(Squares(WinCloses)) - WinSum * WinSum
\* |close - MA| against multiplier * STD, both squared and scaled.
DevSq == 100 * (period - 1) * WinDev * WinDev
BandSq == multiplier * multiplier * period * WinD
AboveUpper == WinDev > 0 /\ DevSq > BandSq
BelowLower == WinDev < 0 /\ DevSq > BandSq
OnABand == DevSq = BandSq

Returned == pc = "returned" /\ data # None

\* The usable closes of the latest frame are all equal to c.
ConstantAt(c) ==
    /\ df.kind = "frame" /\ df.hasClose
    /\ UsableCount(df) >= period
    /\ \A i \in UsableIdx(df) : df.rows[i].Close = c

\* The step that runs the add block / one loop iteration / ends the run.
AddStep == pc = "add" /\ pc' = "dashboard"
IterStep == pc = "dashboard" /\ Len(frames') = Len(frames) + 1
EndStep == pc = "dashboard" /\ pc' = "idle"

---------------------------------------------------------------------------
\* C1: the watchlist never holds two equal symbols, every symbol in it is
\* trimmed and uppercased, and a submission whose trimmed, uppercased text is
\* already tracked ("a" or " a " after "A") is rejected as a duplicate and
\* changes nothing.
C1_Unique ==
    [][ /\ NoDuplicates(symbols')
        /\ \A i \in 1..Len(symbols') : IsNormalized(symbols'[i])
        /\ (AddStep /\ stock_symbol \in {<<"a">>, <<"A">>, <<" ", "a", " ">>}
                    /\ <<"A">> \in Range(symbols))
             => warning' = "duplicate" /\ symbols' = symbols ]_vars

C1_Witness ==
    /\ pc = "dashboard" /\ submitted /\ warning = "duplicate"
    /\ symbols = << <<"A">> >> /\ stock_symbol = <<"A">>

\* C2: a submission whose trimmed text is empty (empty or all spaces) is
\* answered with the empty-input warning and never reaches the watchlist.
C2_EmptyInput ==
    [][ (AddStep /\ AllSpaces(stock_symbol))
          => /\ warning' = "empty"
             /\ symbols' = symbols
             /\ <<>> \notin Range(symbols') ]_vars

\* C3: a rejected submission leaves the watchlist as it was, an accepted one
\* appends exactly the normalized symbol at the end, and no step removes or
\* reorders entries: the old watchlist is a prefix of the new one.
C3_AppendOnly ==
    [][ /\ IsPrefix(symbols, symbols')
        /\ AddStep =>
             /\ warning' \in {"empty", "duplicate", "nodata"} => symbols' = symbols
             /\ warning' = "none" =>
                  /\ Len(symbols') = Len(symbols) + 1
                  /\ symbols'[Len(symbols')] = stock_symbol'
                  /\ IsNormalized(stock_symbol')
                  /\ stock_symbol' \notin Range(symbols) ]_vars

C3_Witness ==
    /\ pc = "dashboard" /\ submitted /\ warning = "none"
    /\ Len(symbols) = 2 /\ symbols[2] = stock_symbol

\* C4: when analyze_stock returns a row, its signal is SELL exactly when the
\* last close is strictly above the upper band, BUY exactly when strictly
\* below the lower band, HOLD otherwise; a close on a band is HOLD.
C4_Signal ==
    Returned =>
        /\ data.Signal \in {"SELL", "BUY", "HOLD"}
        /\ data.Signal = "SELL" <=> AboveUpper
        /\ data.Signal = "BUY" <=> BelowLower
        /\ data.Signal = "HOLD" <=> ~AboveUpper /\ ~BelowLower
        /\ OnABand => data.Signal = "HOLD"

C4_Witness ==
    /\ Returned /\ OnABand /\ WinD > 0 /\ WinDev > 0 /\ data.Signal = "HOLD"

\* C5: no result without a band at the latest timestamp: a frame that is
\* empty or has fewer usable closes than the period gives no result, makes
\* the add block answer "no data" without adding, and leaves no row for its
\* symbol in the dashboard loop.
C5_NoBandNoResult ==
    /\ (df.kind = "frame" /\ TooShort(df, period)) => data = None
    /\ (pc = "dashboard" /\ submitted /\ frames = <<>> /\ TooShort(df, period))
         => warning = "nodata" /\ stock_symbol \notin Range(symbols)
    /\ \A i \in 1..Len(frames) :
         TooShort(frames[i], period) => ~HasRowFor(results, symbols[i])

C5_Witness ==
    /\ pc = "dashboard" /\ Len(frames) = 2 /\ Len(results) = 1
    /\ frames[1].rows # <<>> /\ TooShort(frames[1], period)
    /\ results[1].Symbol = symbols[2]

C8_Contained ==
    /\ [](df.kind # "none" /\ Unusable(df, period) => data = None)
    /\ [][EndStep => Len(frames) = Len(symbols)]_vars
    /\ [](\A i, j \in 1..Len(frames) :
            LET alone == analyze_stock(symbols[j], frames[j], period, multiplier)
            IN  (i # j /\ Unusable(frames[i], period) /\ alone # None)
                  => \E n \in 1..Len(results) : results[n] = alone)

C8_Witness ==
    /\ pc = "dashboard" /\ Len(symbols) = 2 /\ Len(frames) = 2
    /\ frames[1].kind = "error"
    /\ results = <<analyze_stock(symbols[2], frames[2], period, multiplier)>>

\* C9: only the add block changes the watchlist: a refresh or a settings
\* change keeps every symbol, failed or not; every run evaluates all of
\* them; and a symbol whose evaluation succeeds gets its row in that run.
C9_RefreshKeeps ==
    [][ /\ ~AddStep => symbols' = symbols
        /\ EndStep => Len(frames) = Len(symbols)
        /\ IterStep =>
             /\ df' = frames'[Len(frames')]
             /\ ~Unusable(df', period) =>
                  /\ results' # <<>>
                  /\ results'[Len(results')].Symbol = symbols[Len(frames')] ]_vars

C9_Witness ==
    /\ pc = "dashboard" /\ ~submitted /\ refresh >= 1 /\ period > MinPeriod
    /\ Len(symbols) = 2 /\ Len(frames) = 2
    /\ TooShort(frames[1], period) /\ ~HasRowFor(results, symbols[1])
    /\ HasRowFor(results, symbols[2])

\* C10: the rows of a run are an order-preserving subsequence of the
\* watchlist: one row for each evaluated symbol with a usable frame, none for
\* the others, in watchlist order.
C10_Subsequence ==
    LET good == {i \in 1..Len(frames) : ~Unusable(frames[i], period)}
    IN  /\ Len(results) = Cardinality(good)
        /\ \A n \in 1..Len(results) :
             \E i \in good :
                /\ results[n].Symbol = symbols[i]
                /\ Cardinality({h \in good : h < i}) = n - 1

C10_Witness ==
    /\ pc = "dashboard" /\ Len(symbols) = 2 /\ Len(frames) = 2
    /\ Len(results) = 2 /\ results[1].Symbol = symbols[1]

=============================================================================
